---- MODULE Spec2Model ----
(***************************************************************************)
(* yapm (src/main.py): the concurrent mirror-failover download of a batch  *)
(* of packages under an asyncio.Semaphore, the orchestration in main()     *)
(* (gather, failure report, sequential installs) and install_package()'s   *)
(* two-pass plan/extract loop.                                             *)
(*                                                                         *)
(* Each download task is a coroutine: an action is the code a task runs    *)
(* between two suspension points (await).  Tasks may take their first step *)
(* in any order, a superset of the event loop's creation order.            *)
(***************************************************************************)
EXTENDS Integers, Sequences, FiniteSets, TLC

\* ------------------------------------------------------------- bounds
NumTasks == 2        \* packages of the batch (main.py has 5)
MaxCapacity == 2     \* largest semaphore value tried (main.py has 3)
MaxMirrors == 2      \* longest mirror list tried (main.py has 1)
MaxBody == 1         \* most bytes a response body carries
ChunkSize == 1       \* bytes per iter_chunked chunk (512 in main.py, scaled)
MaxEntries == 2      \* most members of a package archive
MaxEntrySize == 1    \* largest member size
StreamMaxBody == 3   \* most bytes of a body in StreamSpec
StreamChunkSize == 2 \* largest chunk in StreamSpec
MaxPreexisting == 2  \* largest size of a file found at dest
MaxUrlParts == 3     \* most pieces of a mirror template

Tasks == 1..NumTasks

\* HTTP statuses the transport may return; 0 stands for "no response".
Statuses == {200, 304, 404}

\* response = None (lines 29, 41)
None == [mirror |-> 0, status |-> 0]

VARIABLES
    mirrors,        \* the mirror list handed to every download; a template is
                    \* named by its position
    capacity,       \* the value the semaphore was created with
    semValue,       \* asyncio.Semaphore._value
    waiters,        \* asyncio.Semaphore._waiters, FIFO of suspended tasks
    pc,             \* per task: start, waiting, get, stream, done, raised, cancelled
    mirrorIdx,      \* per task: position of `url` in mirrors (0 before the loop)
    response,       \* per task: the local `response`
    contacted,      \* per task: history, <<mirror position, response.ok>> per GET answered
    issued,         \* per task: history, mirror positions a GET was issued to
    bodyFrom,       \* per task: history, the mirror position whose body goes to dest
    destOpened,     \* per task: open(dest, 'wb') happened
    destChunks,     \* per task: lengths of the chunks written to dest, in order
    destSize,       \* per task: size of the file at dest
    destBefore,     \* per task: history, size of the file at dest before the call
    arrived,        \* per task: history, lengths of the chunks iter_chunked yielded
    pb,             \* per task: tqdm counter n, -1 while no progress bar exists
    retcode,        \* per task: first component of the returned tuple, -1 before
    finishOrder,    \* history: tasks in the order they returned
    main_pc,        \* main(): gather, exit1, install, done, aborted, none
    returns,        \* main(): the tuple `returns` after the gather (<<>> before)
    reported,       \* history: package indexes written as "failed to download"
    installCalls,   \* history: package indexes install_package was called with
    exitCode,       \* process exit status, -1 while running
    instIdx,        \* main(): position of the install loop
    fs,             \* the filesystem: the set of paths <<directory, name>> that exist
    ipc,            \* install_package(): idle, start, plan, extract, returned, raised
    pkgIsFile,      \* install_package(): package.is_file()
    rootIsDir,      \* install_package(): root_dir.is_dir()
    entries,        \* install_package(): tar_archive.getmembers(), records name, size
    overwrite,      \* install_package(): the overwrite argument
    root_dir,       \* install_package(): the root_dir argument (a directory)
    fs0,            \* history: the filesystem when install_package was called
    to_be_extracted,\* install_package(): the plan, positions in entries
    total_size,     \* install_package(): the local total_size
    planIdx,        \* install_package(): position of the loop of line 123
    extractIdx,     \* install_package(): position of the loop of line 166
    extracted,      \* history: positions in entries extracted, in order
    writes,         \* history: the paths extraction wrote
    instPbTotal,    \* install_package(): the progress bar's total, -1 before
    instPbN,        \* install_package(): the progress bar's counter
    instRet,        \* install_package(): the value returned, <<>> for None
    rpc,            \* lines 31-33: idle, start, resolved
    url,            \* lines 30-31: the mirror template, a sequence of characters
    repo,           \* download(): the repo argument, a sequence of characters
    actual_url      \* lines 31-33: the local actual_url

dlvars == <<mirrors, capacity, semValue, waiters, pc, mirrorIdx, response,
            contacted, issued, bodyFrom, destOpened, destChunks, destSize, destBefore,
            arrived, pb, retcode, finishOrder>>
mainvars == <<main_pc, returns, reported, installCalls, exitCode, instIdx>>
instvars == <<ipc, pkgIsFile, rootIsDir, entries, overwrite, root_dir, fs0,
              to_be_extracted, total_size, planIdx, extractIdx, extracted, writes,
              instPbTotal, instPbN, instRet>>
resvars == <<rpc, url, repo, actual_url>>
vars == <<dlvars, mainvars, fs, instvars, resvars>>

\* ------------------------------------------------------------- helpers
\* The mirror lists tried: every length up to MaxMirrors.
MirrorLists == {[i \in 1..n |-> i] : n \in 0..MaxMirrors}

RECURSIVE SeqsUpTo(_, _)
SeqsUpTo(S, n) ==
    IF n = 0 THEN {<<>>}
    ELSE LET shorter == SeqsUpTo(S, n - 1)
         IN shorter \cup {Append(s, x) : s \in {q \in shorter : Len(q) = n - 1}, x \in S}

RECURSIVE SumSeq(_)
SumSeq(s) == IF s = <<>> THEN 0 ELSE Head(s) + SumSeq(Tail(s))

Range(s) == {s[i] : i \in DOMAIN s}

\* ------------------------------------------------------------- semaphore
\* asyncio.Semaphore.acquire proceeds without suspending when a slot is free
\* and nobody queues before the caller.
\* Variant: the free-slot test is left out.
CanAcquireUnchecked(value, queue, t) ==
    IF queue = <<>> THEN TRUE ELSE Head(queue) = t

CanAcquire(value, queue, t) ==
    /\ value > 0
    /\ IF queue = <<>> THEN TRUE ELSE Head(queue) = t

\* Variant: leaving the block gives nothing back.
NotReleased(value) == value

\* __aexit__ of `async with sem`: release() adds the slot back.
Released(value) == value + 1

\* aiohttp ClientResponse.ok (line 36): status below 400.
ResponseOk(status) == status < 400

\* Variant: line 41 is left out, the failed response stays in `response`.
KeptResponse(r) == r

\* line 41: a failed response is forgotten.
ClearedResponse(r) == None

\* Variant: the `break` of line 46 is left out.
LoopWithoutBreak(ok, idx, n) == idx < n

\* lines 30, 46: the loop goes on to the next mirror unless the response was
\* ok (break) or the list is exhausted.
LoopContinues(ok, idx, n) == ~ok /\ idx < n

\* Tasks between acquiring and releasing the semaphore.
Holding(t) == pc[t] \in {"get", "stream"}

\* Variant: dest is opened in append mode.
OpenForAppending(size) == size

\* line 65: open(dest, mode='wb') truncates the file.
OpenForWriting(size) == 0

\* line 70: fout.write(chunk) on a file written front to back.
Written(size, len) == size + len

\* line 73: pb.update(len(chunk)).
PbUpdate(n, len) == n + len

\* ------------------------------------------------------------- mirror URL
\* A string is the sequence of its characters.
RepoVar == <<"$", "r", "e", "p", "o">>
ArchVar == <<"$", "a", "r", "c", "h">>
X86_64 == <<"x", "8", "6", "_", "6", "4">>

\* The pieces mirror templates are put together from, and the templates.
UrlParts == {<<"/">>, <<"m">>, RepoVar, ArchVar}

RECURSIVE Concat(_)
Concat(parts) == IF parts = <<>> THEN <<>> ELSE Head(parts) \o Concat(Tail(parts))

Templates == {Concat(ps) : ps \in SeqsUpTo(UrlParts, MaxUrlParts)}

\* The repository names tried: a plain one, and one that reads like the
\* architecture placeholder.
Repos == {<<"c", "o", "r", "e">>, ArchVar}

StartsWith(s, prefix) ==
    Len(s) >= Len(prefix) /\ SubSeq(s, 1, Len(prefix)) = prefix

\* str.replace(old, new): every occurrence of old, found left to right
\* without overlap, gives way to new.
RECURSIVE Replace(_, _, _)
Replace(s, old, new) ==
    IF s = <<>> THEN <<>>
    ELSE IF StartsWith(s, old)
         THEN new \o Replace(SubSeq(s, Len(old) + 1, Len(s)), old, new)
         ELSE <<Head(s)>> \o Replace(Tail(s), old, new)

RECURSIVE LStrip(_, _)
LStrip(s, c) ==
    IF s = <<>> THEN <<>>
    ELSE IF Head(s) = c THEN LStrip(Tail(s), c) ELSE s

RECURSIVE RStrip(_, _)
RStrip(s, c) ==
    IF s = <<>> THEN <<>>
    ELSE IF s[Len(s)] = c THEN RStrip(SubSeq(s, 1, Len(s) - 1), c) ELSE s

\* str.strip(chars): the characters are taken off both ends.
Strip(s, c) == RStrip(LStrip(s, c), c)

\* lines 31-33: url.replace("$repo", repo).replace("$arch", "x86_64").strip("/")
ActualUrl(template, r) ==
    Strip(Replace(Replace(template, RepoVar, r), ArchVar, X86_64), "/")

\* lines 31-33: one mirror template is resolved.
Resolve ==
    /\ rpc = "start"
    /\ actual_url' = ActualUrl(url, repo)
    /\ rpc' = "resolved"
    /\ UNCHANGED <<url, repo>>
    /\ UNCHANGED <<dlvars, mainvars, fs, instvars>>

\* ------------------------------------------------------------- download()
\* The coroutine of task t ends: its frame, and with it the locals `url` and
\* `response`, is gone.
FrameDropped(t) ==
    /\ mirrorIdx' = [mirrorIdx EXCEPT ![t] = 0]
    /\ response' = [response EXCEPT ![t] = None]

\* `return 1, None` (line 50) leaving the `async with` block.
ReturnFailure(t, value) ==
    /\ pc' = [pc EXCEPT ![t] = "done"]
    /\ retcode' = [retcode EXCEPT ![t] = 1]
    /\ semValue' = Released(value)
    /\ finishOrder' = Append(finishOrder, t)
    /\ FrameDropped(t)

\* line 25: the semaphore is acquired, at once or after a wait, and the task
\* runs up to its first await: the GET to the first mirror (line 34), or, with
\* no mirror at all, straight to `return 1, None`.
Acquire(t) ==
    /\ main_pc = "gather"
    /\ pc[t] \in {"start", "waiting"}
    /\ CanAcquire(semValue, waiters, t)
    /\ waiters' = IF pc[t] = "waiting" THEN Tail(waiters) ELSE waiters
    /\ IF mirrors = <<>>
       THEN /\ ReturnFailure(t, semValue - 1)
            /\ UNCHANGED issued
       ELSE /\ semValue' = semValue - 1
            /\ pc' = [pc EXCEPT ![t] = "get"]
            /\ mirrorIdx' = [mirrorIdx EXCEPT ![t] = 1]
            /\ issued' = [issued EXCEPT ![t] = Append(@, 1)]
            /\ UNCHANGED <<retcode, finishOrder, response>>
    /\ UNCHANGED <<mirrors, capacity, destBefore, contacted, bodyFrom, destOpened,
                   destChunks, destSize, arrived, pb>>
    /\ UNCHANGED <<mainvars, fs, instvars, resvars>>

\* line 25: no free slot, the task suspends in the semaphore's queue.
Block(t) ==
    /\ main_pc = "gather"
    /\ pc[t] = "start"
    /\ ~CanAcquire(semValue, waiters, t)
    /\ pc' = [pc EXCEPT ![t] = "waiting"]
    /\ waiters' = Append(waiters, t)
    /\ UNCHANGED <<mirrors, capacity, destBefore, semValue, mirrorIdx, response, contacted, issued,
                   bodyFrom, destOpened, destChunks, destSize, arrived, pb, retcode, finishOrder>>
    /\ UNCHANGED <<mainvars, fs, instvars, resvars>>

\* lines 34-65: session.get returns a response with status st; the task runs
\* to its next await: the next mirror's GET, the first chunk read (after
\* opening dest), or it returns failure.
GetReturns(t, st) ==
    /\ main_pc = "gather"
    /\ pc[t] = "get"
    /\ LET idx == mirrorIdx[t]
           got == [mirror |-> idx, status |-> st]
           ok == ResponseOk(st)
           r == IF ok THEN got ELSE ClearedResponse(got)
       IN /\ contacted' = [contacted EXCEPT ![t] = Append(@, <<idx, ok>>)]
          /\ IF LoopContinues(ok, idx, Len(mirrors))
             THEN /\ mirrorIdx' = [mirrorIdx EXCEPT ![t] = idx + 1]
                  /\ response' = [response EXCEPT ![t] = r]
                  /\ issued' = [issued EXCEPT ![t] = Append(@, idx + 1)]
                  /\ UNCHANGED <<pc, semValue, retcode, finishOrder, bodyFrom,
                                 destOpened, destChunks, destSize, arrived, pb>>
             ELSE IF r = None
             THEN /\ ReturnFailure(t, semValue)
                  /\ UNCHANGED <<issued, bodyFrom, destOpened, destChunks, destSize, arrived, pb>>
             ELSE /\ pc' = [pc EXCEPT ![t] = "stream"]
                  /\ response' = [response EXCEPT ![t] = r]
                  /\ pb' = [pb EXCEPT ![t] = 0]
                  /\ destOpened' = [destOpened EXCEPT ![t] = TRUE]
                  /\ destChunks' = [destChunks EXCEPT ![t] = <<>>]
                  /\ destSize' = [destSize EXCEPT ![t] = OpenForWriting(@)]
                  /\ bodyFrom' = [bodyFrom EXCEPT ![t] = r.mirror]
                  /\ UNCHANGED <<mirrorIdx, issued, semValue, retcode, finishOrder, arrived>>
    /\ UNCHANGED <<mirrors, capacity, destBefore, waiters>>
    /\ UNCHANGED <<mainvars, fs, instvars, resvars>>

\* line 34: session.get raises (connection refused, DNS failure, ...).  No
\* handler in download(): the exception leaves the `async with`, releasing
\* the semaphore, and ends the task.
GetRaises(t) ==
    /\ main_pc = "gather"
    /\ pc[t] = "get"
    /\ pc' = [pc EXCEPT ![t] = "raised"]
    /\ semValue' = Released(semValue)
    /\ FrameDropped(t)
    /\ UNCHANGED <<mirrors, capacity, destBefore, waiters, contacted, issued, bodyFrom,
                   destOpened, destChunks, destSize, arrived, pb, retcode, finishOrder>>
    /\ UNCHANGED <<mainvars, fs, instvars, resvars>>

\* lines 67-73: one chunk of n bytes arrives, is written and counted; the
\* body is at most maxBody bytes long.
ChunkOf(t, n, maxBody) ==
    /\ main_pc = "gather"
    /\ pc[t] = "stream"
    /\ SumSeq(arrived[t]) + n <= maxBody
    /\ arrived' = [arrived EXCEPT ![t] = Append(@, n)]
    /\ destChunks' = [destChunks EXCEPT ![t] = Append(@, n)]
    /\ destSize' = [destSize EXCEPT ![t] = Written(@, n)]
    /\ pb' = [pb EXCEPT ![t] = PbUpdate(@, n)]
    /\ UNCHANGED <<mirrors, capacity, destBefore, semValue, waiters, pc, mirrorIdx, response,
                   contacted, issued, bodyFrom, destOpened, retcode, finishOrder>>
    /\ UNCHANGED <<mainvars, fs, instvars, resvars>>

Chunk(t, n) == ChunkOf(t, n, MaxBody)

\* lines 67, 75-76: the body ends; `return 0, pb`.
StreamEnd(t) ==
    /\ main_pc = "gather"
    /\ pc[t] = "stream"
    /\ pc' = [pc EXCEPT ![t] = "done"]
    /\ retcode' = [retcode EXCEPT ![t] = 0]
    /\ semValue' = Released(semValue)
    /\ finishOrder' = Append(finishOrder, t)
    /\ FrameDropped(t)
    /\ UNCHANGED <<mirrors, capacity, destBefore, waiters, contacted, issued, bodyFrom,
                   destOpened, destChunks, destSize, arrived, pb>>
    /\ UNCHANGED <<mainvars, fs, instvars, resvars>>

\* line 67: reading the body raises (connection lost mid-transfer).
StreamRaises(t) ==
    /\ main_pc = "gather"
    /\ pc[t] = "stream"
    /\ pc' = [pc EXCEPT ![t] = "raised"]
    /\ semValue' = Released(semValue)
    /\ FrameDropped(t)
    /\ UNCHANGED <<mirrors, capacity, destBefore, waiters, contacted, issued, bodyFrom,
                   destOpened, destChunks, destSize, arrived, pb, retcode, finishOrder>>
    /\ UNCHANGED <<mainvars, fs, instvars, resvars>>

\* ------------------------------------------------------------- main()
\* Variant: results in the order the tasks finished (as_completed).
ResultsAsCompleted(codes, order) == [i \in Tasks |-> codes[order[i]]]

\* asyncio.gather (line 196) hands the results back in the order of the
\* awaitables it was given, whatever the order they finished in.
GatherResults(codes, order) == [i \in Tasks |-> codes[i]]

\* Variant: only the first result is looked at.
FirstFailed(rets) == rets[1] = 1

\* line 205: `1 in returns`.
AnyFailed(rets) == \E i \in DOMAIN rets : rets[i] = 1

\* lines 206-208: the packages reported, in index order.
RECURSIVE FailedFrom(_, _)
FailedFrom(rets, i) ==
    IF i > Len(rets) THEN <<>>
    ELSE (IF rets[i] = 1 THEN <<i>> ELSE <<>>) \o FailedFrom(rets, i + 1)

\* lines 196-211: every task has returned; the gather completes, and main
\* either reports the failures and exits with 1 or enters the install loop.
MainGather ==
    /\ main_pc = "gather"
    /\ \A t \in Tasks : pc[t] = "done"
    /\ LET rets == GatherResults(retcode, finishOrder)
       IN /\ returns' = rets
          /\ IF AnyFailed(rets)
             THEN /\ reported' = FailedFrom(rets, 1)
                  /\ main_pc' = "exit1"
                  /\ exitCode' = 1
                  /\ UNCHANGED instIdx
             ELSE /\ main_pc' = "install"
                  /\ instIdx' = 1
                  /\ UNCHANGED <<reported, exitCode>>
    /\ UNCHANGED installCalls
    /\ UNCHANGED <<dlvars, fs, instvars, resvars>>

\* lines 196, 216: a task ended with an exception; gather (return_exceptions
\* not set) raises it into main, which has no handler: main ends, and
\* asyncio.run cancels every task still pending before the process exits
\* with a traceback.  A cancelled task leaves its `async with`, releasing
\* its slot.
CancelledPc(p) == IF p \in {"start", "waiting", "get", "stream"} THEN "cancelled" ELSE p

MainAbort ==
    /\ main_pc = "gather"
    /\ \E t \in Tasks : pc[t] = "raised"
    /\ main_pc' = "aborted"
    /\ exitCode' = 1
    /\ pc' = [t \in Tasks |-> CancelledPc(pc[t])]
    /\ waiters' = <<>>
    /\ semValue' = semValue + Cardinality({t \in Tasks : Holding(t)})
    /\ mirrorIdx' = [t \in Tasks |-> 0]
    /\ response' = [t \in Tasks |-> None]
    /\ UNCHANGED <<returns, reported, installCalls, instIdx>>
    /\ UNCHANGED <<mirrors, capacity, destBefore, contacted, issued, bodyFrom,
                   destOpened, destChunks, destSize, arrived, pb, retcode, finishOrder>>
    /\ UNCHANGED <<fs, instvars, resvars>>

\* ------------------------------------------------------------- install_package()
\* A name is the sequence of its characters.
Names == {<<".", "m">>, <<"a">>, <<"a", ".">>}

\* "cwd" is the process's working directory, "install" another directory.
Dirs == {"cwd", "install"}

Paths == Dirs \X Names

ArchiveEntries == [name : Names, size : 1..MaxEntrySize]

Archives == SeqsUpTo(ArchiveEntries, MaxEntries)

\* Variant: the test is startswith('./').
StartsWithDotSlash(name) == Len(name) >= 2 /\ name[1] = "." /\ name[2] = "/"

\* line 126: i.name.startswith('.')
StartsWithDot(name) == Len(name) >= 1 /\ name[1] = "."

\* Variant: the existence test looks under root_dir.
PathExistsUnderRoot(files, name, root) == <<root, name>> \in files

\* line 130: os.path.exists(i.name), a relative name resolved against the
\* working directory.
PathExists(files, name, root) == <<"cwd", name>> \in files

\* Variant: an existing path is never extracted, overwrite or not.
ShouldExtractNeverOverwrite(name, files, ow, root) ==
    ~StartsWithDot(name) /\ ~PathExists(files, name, root)

\* lines 126-154: whether a member joins to_be_extracted.
ShouldExtract(name, files, ow, root) ==
    IF ~StartsWithDot(name)
    THEN IF PathExists(files, name, root)
         THEN IF ~ow THEN FALSE ELSE TRUE
         ELSE TRUE
    ELSE FALSE

\* line 168: tar_archive.extract(i, root_dir) writes root_dir/name.
ExtractPath(root, name) == <<root, name>>

\* lines 117-154 as a whole: the plan for a member list.
RECURSIVE PlanFrom(_, _, _, _, _)
PlanFrom(ents, i, files, ow, root) ==
    IF i > Len(ents) THEN <<>>
    ELSE (IF ShouldExtract(ents[i].name, files, ow, root) THEN <<i>> ELSE <<>>)
         \o PlanFrom(ents, i + 1, files, ow, root)

PlanOf(ents, files, ow, root) == PlanFrom(ents, 1, files, ow, root)

\* lines 166-169 as a whole: the filesystem after extracting a plan.
ExtractAll(files, ents, plan, root) ==
    files \cup {ExtractPath(root, ents[plan[k]].name) : k \in DOMAIN plan}

\* Variant: the assertion on root_dir (line 92) is left out.
OnlyPackageChecked(isFile, isDir) == isFile

\* lines 90, 92: both assertions pass.
InputsValid(isFile, isDir) == isFile /\ isDir

\* Variant: the extraction loop tests again, against the filesystem as it
\* is by then, whether the member should be extracted.
RecheckedAtExtraction(name, files, ow, root) == ShouldExtract(name, files, ow, root)

\* lines 166-168: the extraction loop extracts every member of the plan; it
\* tests nothing.
ExtractionCondition(name, files, ow, root) == TRUE

\* Variant: the plan is walked from its end.
ExtractAtReversed(plan, k) == plan[Len(plan) + 1 - k]

\* line 166: `for i in to_be_extracted`, the k-th member extracted.
ExtractAt(plan, k) == plan[k]

\* lines 90-118: the two assertions, then decompression and tarfile.open.
InstCheck ==
    /\ ipc = "start"
    /\ IF InputsValid(pkgIsFile, rootIsDir)
       THEN /\ ipc' = "plan"
            /\ total_size' = 0
            /\ to_be_extracted' = <<>>
            /\ planIdx' = 1
       ELSE /\ ipc' = "raised"
            /\ UNCHANGED <<total_size, to_be_extracted, planIdx>>
    /\ UNCHANGED <<pkgIsFile, rootIsDir, entries, overwrite, root_dir, fs0, extractIdx,
                   extracted, writes, instPbTotal, instPbN, instRet>>
    /\ UNCHANGED <<dlvars, mainvars, fs, resvars>>

\* lines 123-154: one iteration of the planning loop.
InstPlanEntry ==
    /\ ipc = "plan"
    /\ planIdx <= Len(entries)
    /\ LET i == entries[planIdx]
       IN IF ShouldExtract(i.name, fs, overwrite, root_dir)
          THEN /\ to_be_extracted' = Append(to_be_extracted, planIdx)
               /\ total_size' = total_size + i.size
          ELSE UNCHANGED <<to_be_extracted, total_size>>
    /\ planIdx' = planIdx + 1
    /\ UNCHANGED <<ipc, pkgIsFile, rootIsDir, entries, overwrite, root_dir, fs0,
                   extractIdx, extracted, writes, instPbTotal, instPbN, instRet>>
    /\ UNCHANGED <<dlvars, mainvars, fs, resvars>>

\* lines 156-163: the planning loop is over; the progress bar is set up.
InstPlanDone ==
    /\ ipc = "plan"
    /\ planIdx > Len(entries)
    /\ ipc' = "extract"
    /\ instPbTotal' = total_size
    /\ instPbN' = 0
    /\ extractIdx' = 1
    /\ UNCHANGED <<pkgIsFile, rootIsDir, entries, overwrite, root_dir, fs0,
                   to_be_extracted, total_size, planIdx, extracted, writes, instRet>>
    /\ UNCHANGED <<dlvars, mainvars, fs, resvars>>

\* lines 166-169: one iteration of the extraction loop.
InstExtractEntry ==
    /\ ipc = "extract"
    /\ extractIdx <= Len(to_be_extracted)
    /\ LET m == ExtractAt(to_be_extracted, extractIdx)
           i == entries[m]
           path == ExtractPath(root_dir, i.name)
       IN IF ExtractionCondition(i.name, fs, overwrite, root_dir)
          THEN /\ fs' = fs \cup {path}
               /\ writes' = writes \cup {path}
               /\ instPbN' = instPbN + i.size
               /\ extracted' = Append(extracted, m)
          ELSE UNCHANGED <<fs, writes, instPbN, extracted>>
    /\ extractIdx' = extractIdx + 1
    /\ UNCHANGED <<ipc, pkgIsFile, rootIsDir, entries, overwrite, root_dir, fs0,
                   to_be_extracted, total_size, planIdx, instPbTotal, instRet>>
    /\ UNCHANGED <<dlvars, mainvars, resvars>>

\* lines 171-172: the extraction loop is over; the function ends without a
\* return statement, its value is None.
InstReturn ==
    /\ ipc = "extract"
    /\ extractIdx > Len(to_be_extracted)
    /\ ipc' = "returned"
    /\ instRet' = <<>>
    /\ UNCHANGED <<pkgIsFile, rootIsDir, entries, overwrite, root_dir, fs0,
                   to_be_extracted, total_size, planIdx, extractIdx, extracted, writes,
                   instPbTotal, instPbN>>
    /\ UNCHANGED <<dlvars, mainvars, fs, resvars>>

\* ------------------------------------------------------------- main(), install loop
\* The member lists main's downloaded packages may hold.
MainArchives ==
    { <<[name |-> <<".", "m">>, size |-> 1], [name |-> <<"a">>, size |-> 1]>>,
      <<[name |-> <<"a", ".">>, size |-> 1]>> }

\* Variant: the install loop walks the package list from its end.
InstallTargetReversed(idx) == NumTasks + 1 - idx

\* line 211: `for i in packages`, the package of the idx-th iteration.
InstallTarget(idx) == idx

\* lines 211-214: one iteration: install_package(download/<package>,
\* overwrite=True, root_dir=install/) runs to its return.  The call is
\* synchronous, nothing else runs meanwhile.
MainInstall ==
    /\ main_pc = "install"
    /\ instIdx <= NumTasks
    /\ installCalls' = Append(installCalls, InstallTarget(instIdx))
    /\ \E ents \in MainArchives :
          fs' = ExtractAll(fs, ents, PlanOf(ents, fs, TRUE, "install"), "install")
    /\ instIdx' = instIdx + 1
    /\ UNCHANGED <<main_pc, returns, reported, exitCode>>
    /\ UNCHANGED <<dlvars, instvars, resvars>>

\* lines 211-214: install_package raises (install/ is no directory, the
\* download is no Zstandard tar archive); main has no handler.
MainInstallRaises ==
    /\ main_pc = "install"
    /\ instIdx <= NumTasks
    /\ installCalls' = Append(installCalls, InstallTarget(instIdx))
    /\ main_pc' = "aborted"
    /\ exitCode' = 1
    /\ UNCHANGED <<returns, reported, instIdx>>
    /\ UNCHANGED <<dlvars, fs, instvars, resvars>>

\* line 211: the install loop is over; main returns.
MainDone ==
    /\ main_pc = "install"
    /\ instIdx > NumTasks
    /\ main_pc' = "done"
    /\ exitCode' = 0
    /\ UNCHANGED <<returns, reported, installCalls, instIdx>>
    /\ UNCHANGED <<dlvars, fs, instvars, resvars>>

\* ------------------------------------------------------------- specification
\* The download side before any task has run.
DownloadInit ==
    /\ semValue = capacity
    /\ waiters = <<>>
    /\ pc = [t \in Tasks |-> "start"]
    /\ mirrorIdx = [t \in Tasks |-> 0]
    /\ response = [t \in Tasks |-> None]
    /\ contacted = [t \in Tasks |-> <<>>]
    /\ issued = [t \in Tasks |-> <<>>]
    /\ bodyFrom = [t \in Tasks |-> 0]
    /\ destOpened = [t \in Tasks |-> FALSE]
    /\ destChunks = [t \in Tasks |-> <<>>]
    /\ arrived = [t \in Tasks |-> <<>>]
    /\ destBefore = destSize
    /\ pb = [t \in Tasks |-> -1]
    /\ retcode = [t \in Tasks |-> -1]
    /\ finishOrder = <<>>
    /\ returns = <<>>
    /\ reported = <<>>
    /\ installCalls = <<>>
    /\ exitCode = -1
    /\ instIdx = 0

\* install_package's locals before the call has run.
InstallLocalsInit ==
    /\ fs0 = fs
    /\ to_be_extracted = <<>>
    /\ total_size = 0
    /\ planIdx = 0
    /\ extractIdx = 0
    /\ extracted = <<>>
    /\ writes = {}
    /\ instPbTotal = -1
    /\ instPbN = 0
    /\ instRet = <<>>

\* No mirror template is being resolved.
ResolveIdle ==
    /\ rpc = "idle"
    /\ url = <<>>
    /\ repo = <<>>
    /\ actual_url = <<>>

\* main() at line 196: a batch of NumTasks downloads over any mirror list and
\* any semaphore capacity, in an empty working directory.
Init ==
    /\ mirrors \in MirrorLists
    /\ capacity \in 1..MaxCapacity
    /\ destSize = [t \in Tasks |-> 0]
    /\ DownloadInit
    /\ main_pc = "gather"
    /\ fs = {}
    /\ ipc = "idle"
    /\ pkgIsFile = TRUE
    /\ rootIsDir = TRUE
    /\ entries = <<>>
    /\ overwrite = TRUE
    /\ root_dir = "install"
    /\ InstallLocalsInit
    /\ ResolveIdle

Next ==
    \/ \E t \in Tasks : Acquire(t)
    \/ \E t \in Tasks : Block(t)
    \/ \E t \in Tasks, st \in Statuses : GetReturns(t, st)
    \/ \E t \in Tasks : GetRaises(t)
    \/ \E t \in Tasks, n \in 1..ChunkSize : Chunk(t, n)
    \/ \E t \in Tasks : StreamEnd(t)
    \/ \E t \in Tasks : StreamRaises(t)
    \/ MainGather
    \/ MainAbort
    \/ MainInstall
    \/ MainInstallRaises
    \/ MainDone

Spec == Init /\ [][Next]_vars

\* The event loop runs every task that is ready, and every network operation
\* comes to an end (a response, the end of the body, or an exception).
FairSpec == Spec /\ WF_vars(Next)

\* One download() on its own: task 1 runs while the other tasks have not been
\* scheduled yet; the file at dest may exist already, with any size; the body
\* is up to StreamMaxBody bytes long and arrives in any chunking.
StreamInit ==
    /\ mirrors \in MirrorLists
    /\ capacity \in 1..MaxCapacity
    /\ destSize \in [Tasks -> 0..MaxPreexisting]
    /\ DownloadInit
    /\ main_pc = "gather"
    /\ fs = {}
    /\ ipc = "idle"
    /\ pkgIsFile = TRUE
    /\ rootIsDir = TRUE
    /\ entries = <<>>
    /\ overwrite = TRUE
    /\ root_dir = "install"
    /\ InstallLocalsInit
    /\ ResolveIdle

StreamNext ==
    \/ Acquire(1)
    \/ \E st \in Statuses : GetReturns(1, st)
    \/ GetRaises(1)
    \/ \E n \in 1..StreamChunkSize : ChunkOf(1, n, StreamMaxBody)
    \/ StreamEnd(1)
    \/ StreamRaises(1)

StreamSpec == StreamInit /\ [][StreamNext]_vars

\* One call of install_package on any member list, any filesystem, either
\* overwrite value and either root directory; a root that is no directory
\* holds nothing.
InstallInit ==
    /\ mirrors = <<>>
    /\ capacity = 1
    /\ destSize = [t \in Tasks |-> 0]
    /\ DownloadInit
    /\ main_pc = "none"
    /\ fs \in SUBSET Paths
    /\ ipc = "start"
    /\ pkgIsFile \in BOOLEAN
    /\ rootIsDir \in BOOLEAN
    /\ entries \in Archives
    /\ overwrite \in BOOLEAN
    /\ root_dir \in Dirs
    /\ root_dir = "cwd" => rootIsDir
    /\ ~rootIsDir => \A p \in fs : p[1] # root_dir
    /\ InstallLocalsInit
    /\ ResolveIdle

InstallNext ==
    \/ InstCheck
    \/ InstPlanEntry
    \/ InstPlanDone
    \/ InstExtractEntry
    \/ InstReturn

InstallSpec == InstallInit /\ [][InstallNext]_vars

\* The first statement of the mirror loop on its own, for any template and
\* repository name.
ResolveInit ==
    /\ mirrors = <<>>
    /\ capacity = 1
    /\ destSize = [t \in Tasks |-> 0]
    /\ DownloadInit
    /\ main_pc = "none"
    /\ fs = {}
    /\ ipc = "idle"
    /\ pkgIsFile = TRUE
    /\ rootIsDir = TRUE
    /\ entries = <<>>
    /\ overwrite = TRUE
    /\ root_dir = "install"
    /\ InstallLocalsInit
    /\ rpc = "start"
    /\ url \in Templates
    /\ repo \in Repos
    /\ actual_url = <<>>

ResolveNext == Resolve

ResolveSpec == ResolveInit /\ [][ResolveNext]_vars

\* ------------------------------------------------------------- properties
\* C1: the number of tasks between acquiring and releasing the semaphore is
\* at most its capacity N in every reachable state.
C1_AtMostNInFlight ==
    Cardinality({t \in Tasks : Holding(t)}) <= capacity

\* Capacity 1, one task in its I/O phase, another one queueing for the slot.
C1_Witness ==
    /\ capacity = 1
    /\ \E t \in Tasks : pc[t] = "stream"
    /\ \E u \in Tasks : pc[u] = "waiting"

\* C2: mirrors are contacted strictly in list order, mirror k only after
\* mirrors 1..k-1 were answered and failed; nothing is contacted after a
\* successful response; the body streamed is the first successful mirror's.
C2_MirrorsInOrderStopAtFirstSuccess ==
    \A t \in Tasks :
        /\ \A k \in DOMAIN issued[t] :
              /\ issued[t][k] = k
              /\ k <= Len(mirrors)
              /\ \A j \in 1..(k - 1) :
                    /\ j \in DOMAIN contacted[t]
                    /\ contacted[t][j] = <<j, FALSE>>
        /\ \A j \in DOMAIN contacted[t] :
              /\ contacted[t][j][1] = j
              /\ contacted[t][j][2] => Len(issued[t]) = j
        /\ destOpened[t] =>
              /\ bodyFrom[t] \in DOMAIN contacted[t]
              /\ contacted[t][bodyFrom[t]][2]
              /\ \A j \in 1..(bodyFrom[t] - 1) : ~contacted[t][j][2]

\* Two mirrors: one download succeeded on the first and never contacted the
\* second, another failed on the first and streams from the second.
C2_Witness ==
    /\ Len(mirrors) = 2
    /\ \E t, u \in Tasks :
          /\ pc[t] = "done" /\ retcode[t] = 0 /\ issued[t] = <<1>>
          /\ contacted[u] = <<<<1, FALSE>>, <<2, TRUE>>>> /\ bodyFrom[u] = 2

\* Every mirror of the list was sent a GET, none answered with an ok
\* response (it answered with a failure status, or the GET raised), and the
\* task has ended.
EveryMirrorFailed(t) ==
    /\ pc[t] \in {"done", "raised"}
    /\ Len(issued[t]) = Len(mirrors)
    /\ \A j \in DOMAIN contacted[t] : ~contacted[t][j][2]

\* C3: a download whose every mirror failed (or that has no mirror) returns
\* Failure, with no progress bar (no byte transferred) and its destination
\* never opened or written, and no sibling is kept from running to its own
\* outcome.
C3_AllMirrorsFailGivesFailure ==
    \A t \in Tasks :
        EveryMirrorFailed(t) =>
            /\ retcode[t] = 1
            /\ pb[t] = -1
            /\ ~destOpened[t] /\ destChunks[t] = <<>>
            /\ \A u \in Tasks \ {t} : pc[u] # "cancelled"

AllMirrorsAnsweredNotOk(t) ==
    /\ Len(contacted[t]) = Len(mirrors)
    /\ \A j \in DOMAIN contacted[t] : ~contacted[t][j][2]

\* What does hold of download() and gather: when every mirror answers with a
\* failure status (or there is no mirror) the download returns Failure with
\* nothing opened or written; the step that returns Failure changes no
\* sibling and does not end main's wait; only a task that raised gets
\* siblings cancelled or main aborted during the wait.
StatusFailureIsLocal ==
    /\ [](\A t \in Tasks :
            /\ (AllMirrorsAnsweredNotOk(t)
                    /\ pc[t] \notin {"start", "waiting", "cancelled"}) =>
                  /\ pc[t] = "done" /\ retcode[t] = 1
                  /\ pb[t] = -1
                  /\ ~destOpened[t] /\ destChunks[t] = <<>>
            /\ retcode[t] = 1 => AllMirrorsAnsweredNotOk(t)
            /\ (pc[t] = "cancelled" \/ (main_pc = "aborted" /\ installCalls = <<>>)) =>
                  \E u \in Tasks : pc[u] = "raised")
    /\ [][\A t \in Tasks :
            (retcode[t] # 1 /\ retcode'[t] = 1) =>
                /\ main_pc' = main_pc
                /\ \A u \in Tasks \ {t} :
                      /\ pc'[u] = pc[u] /\ retcode'[u] = retcode[u]
                      /\ contacted'[u] = contacted[u] /\ issued'[u] = issued[u]
                      /\ destOpened'[u] = destOpened[u]
                      /\ destChunks'[u] = destChunks[u] /\ pb'[u] = pb[u]]_vars

\* C4: a GET that raises is handled like a non-success status: it is
\* recorded and the next mirror is tried; the error never leaves the task and
\* never aborts the batch.  Stated on the code: no task ends by an exception
\* with a GET issued and unanswered.
C4_TransportErrorHandled ==
    \A t \in Tasks :
        pc[t] = "raised" => Len(contacted[t]) = Len(issued[t])

\* C5: main passes the wait only when every task has finished, and no
\* task's failure cancels a sibling or keeps a finished sibling's outcome
\* from main.
C5_JoinAllNoCancel ==
    /\ main_pc \in {"exit1", "install", "done"} => \A t \in Tasks : pc[t] = "done"
    /\ \A t \in Tasks : pc[t] # "cancelled"
    /\ main_pc # "gather" =>
          \A t \in Tasks :
              retcode[t] # -1 => (t \in DOMAIN returns /\ returns[t] = retcode[t])

\* C6: with a download that returned Failure, install_package is never
\* called and the process ends with exit status 1; with every download
\* successful main enters the install loop.
C6_NoInstallAfterFailure ==
    LET anyFailure == \E t \in Tasks : retcode[t] = 1
        allSuccess == \A t \in Tasks : retcode[t] = 0
    IN /\ anyFailure => installCalls = <<>> /\ main_pc \in {"gather", "exit1", "aborted"}
       /\ (anyFailure /\ main_pc # "gather") => exitCode = 1
       /\ (allSuccess /\ main_pc # "gather") =>
             /\ main_pc \in {"install", "done", "aborted"}
             /\ main_pc \in {"done", "aborted"} => installCalls # <<>>
       /\ installCalls # <<>> => allSuccess

\* A mixed batch after the wait: one download succeeded, one failed, main
\* has exited and nothing was installed.
C6_Witness ==
    /\ main_pc = "exit1"
    /\ \E t, u \in Tasks : retcode[t] = 0 /\ retcode[u] = 1
    /\ installCalls = <<>>

\* C7: the packages reported as failed are exactly the requests whose own
\* download returned Failure, each once, whatever the completion order.
C7_ReportedAreTheFailed ==
    /\ main_pc = "exit1" =>
          /\ Range(reported) = {t \in Tasks : retcode[t] = 1}
          /\ Len(reported) = Cardinality({t \in Tasks : retcode[t] = 1})
    /\ main_pc # "exit1" => reported = <<>>

\* The second request finished first and succeeded, the first finished
\* later and failed; main has reported.
C7_Witness ==
    /\ main_pc = "exit1"
    /\ Len(finishOrder) >= 2 /\ finishOrder[1] = 2 /\ finishOrder[2] = 1
    /\ retcode[2] = 0 /\ retcode[1] = 1

\* A name whose first character is ".".
Reserved(name) == name # <<>> /\ Head(name) = "."

PlanComplete == ipc \in {"extract", "returned"}

\* C8: the plan holds no member whose name starts with ".", and no such
\* member is extracted or written, whatever overwrite is.
C8_NoReservedEntryPlanned ==
    /\ \A k \in DOMAIN to_be_extracted : ~Reserved(entries[to_be_extracted[k]].name)
    /\ \A k \in DOMAIN extracted : ~Reserved(entries[extracted[k]].name)
    /\ \A p \in writes : ~Reserved(p[2])

\* overwrite=True, an archive with a reserved member whose path exists and
\* another member, which was extracted.
C8_Witness ==
    /\ ipc = "returned" /\ overwrite
    /\ \E i \in DOMAIN entries :
          Reserved(entries[i].name) /\ <<"cwd", entries[i].name>> \in fs0
    /\ extracted # <<>>

\* C9: a non-reserved member is planned when nothing exists at its stored
\* name; when something exists it is left out with overwrite=False, and
\* that path is not written during the install, which goes on with the other
\* members; with overwrite=True it is planned, and what is planned is
\* extracted.
C9_SkipOrOverwrite ==
    /\ \A i \in DOMAIN entries :
          LET name == entries[i].name
              existed == <<"cwd", name>> \in fs0
          IN ~Reserved(name) =>
                /\ (existed /\ ~overwrite) =>
                      /\ \A k \in DOMAIN to_be_extracted : to_be_extracted[k] # i
                      /\ <<"cwd", name>> \notin writes
                /\ PlanComplete =>
                      /\ ~existed => i \in Range(to_be_extracted)
                      /\ (existed /\ overwrite) => i \in Range(to_be_extracted)
    /\ ipc = "returned" => Range(extracted) = Range(to_be_extracted)
    /\ (pkgIsFile /\ rootIsDir) => ipc # "raised"

\* overwrite=False, extraction rooted at the working directory: a member
\* whose path existed was skipped and a later member was extracted.
C9_Witness ==
    /\ ipc = "returned" /\ ~overwrite /\ root_dir = "cwd"
    /\ \E i, j \in DOMAIN entries :
          /\ i < j
          /\ ~Reserved(entries[i].name) /\ <<"cwd", entries[i].name>> \in fs0
          /\ i \notin Range(extracted)
          /\ j \in Range(extracted)

\* C10: the plan is the same for every root_dir and every content under the
\* other directories, given the same archive, overwrite flag and working
\* directory content; extraction writes under root_dir.
C10_PlanIgnoresRoot ==
    /\ PlanComplete =>
          \A r2 \in Dirs, other \in SUBSET {p \in Paths : p[1] # "cwd"} :
              PlanOf(entries, {p \in fs0 : p[1] = "cwd"} \cup other, overwrite, r2)
                  = to_be_extracted
    /\ \A p \in writes : p[1] = root_dir
    /\ ipc = "returned" =>
          writes = {<<root_dir, entries[to_be_extracted[k]].name>> :
                        k \in DOMAIN to_be_extracted}

\* overwrite=False, root install/: a member that existed under install/ but
\* not in the working directory was extracted, and one that existed in the
\* working directory but not under install/ was skipped.
C10_Witness ==
    /\ ipc = "returned" /\ ~overwrite /\ root_dir = "install"
    /\ \E i, j \in DOMAIN entries :
          /\ <<"install", entries[i].name>> \in fs0
          /\ <<"cwd", entries[i].name>> \notin fs0
          /\ i \in Range(extracted)
          /\ ~Reserved(entries[j].name)
          /\ <<"cwd", entries[j].name>> \in fs0
          /\ <<"install", entries[j].name>> \notin fs0
          /\ j \notin Range(extracted)

\* C11: install_package called with a package path that is not a regular file
\* or a root_dir that is not a directory fails at its assertions, before the
\* archive is opened: no plan is computed, no member is extracted and the
\* filesystem is as it was at the call.  (The assertions are assert
\* statements; they are active in a run of the interpreter without -O.)
C11_InvalidInputsFailBeforeAnyWork ==
    /\ (~pkgIsFile \/ ~rootIsDir) =>
          /\ ipc \in {"start", "raised"}
          /\ fs = fs0
          /\ extracted = <<>>
          /\ to_be_extracted = <<>>
          /\ planIdx = 0
          /\ writes = {}
          /\ instPbTotal = -1
    /\ ipc = "raised" => (~pkgIsFile \/ ~rootIsDir)

\* A call with a regular package file holding two extractable members and a
\* root that is not a directory has raised.
C11_Witness ==
    /\ ipc = "raised" /\ pkgIsFile /\ ~rootIsDir
    /\ Len(entries) = MaxEntries
    /\ PlanOf(entries, fs0, overwrite, root_dir) # <<>>

\* C13: a call of install_package that returns gives back an outcome holding
\* the number of members extracted and the sum of their sizes.
C13_ReturnsInstallOutcome ==
    ipc = "returned" => instRet = <<Len(extracted), instPbN>>

\* C16: the extraction loop extracts the members of the plan in archive
\* enumeration order, each planned member once, and writes nothing that is
\* not in the plan.
C16_ExtractsPlanInOrder ==
    /\ Len(extracted) <= Len(to_be_extracted)
    /\ \A k \in DOMAIN extracted : extracted[k] = to_be_extracted[k]
    /\ \A j, k \in DOMAIN to_be_extracted : j < k => to_be_extracted[j] < to_be_extracted[k]
    /\ ipc = "extract" => Len(extracted) = extractIdx - 1
    /\ ipc = "returned" => extracted = to_be_extracted
    /\ writes = {ExtractPath(root_dir, entries[extracted[k]].name) : k \in DOMAIN extracted}
    /\ fs = fs0 \cup writes

\* A plan of two members was extracted, the first member first.
C16_Witness ==
    /\ ipc = "returned"
    /\ Len(to_be_extracted) = 2
    /\ extracted = <<1, 2>>
    /\ entries[1].name # entries[2].name

\* C20: the plan is whole before the first extraction and is the plan of the
\* filesystem as it was at the call; extraction neither revises it nor
\* consults the filesystem again, so every planned member is extracted
\* whatever the earlier extractions wrote.
C20_PlanFixedBeforeExtraction ==
    /\ ipc = "plan" => (extracted = <<>> /\ fs = fs0 /\ writes = {})
    /\ ipc = "plan" =>
          to_be_extracted = PlanOf(SubSeq(entries, 1, planIdx - 1), fs0, overwrite, root_dir)
    /\ ipc \in {"extract", "returned"} =>
          to_be_extracted = PlanOf(entries, fs0, overwrite, root_dir)
    /\ ipc = "returned" => extracted = PlanOf(entries, fs0, overwrite, root_dir)

\* overwrite=False into the working directory: two members of one name,
\* absent at the call, were both planned and both extracted.
C20_Witness ==
    /\ ipc = "returned" /\ ~overwrite /\ root_dir = "cwd"
    /\ Len(entries) = 2
    /\ entries[1].name = entries[2].name
    /\ <<"cwd", entries[1].name>> \notin fs0
    /\ to_be_extracted = <<1, 2>>
    /\ extracted = <<1, 2>>

\* C14: the semaphore slot a task took is given back on every way out of the
\* `async with` block (return 0, return 1, an exception in the GET or in the
\* streaming, cancellation), and only once: the free slots are always the
\* capacity less the tasks inside the block, and with every task ended the
\* free slots are the capacity again.
C14_SlotReleasedOnEveryExit ==
    /\ semValue = capacity - Cardinality({t \in Tasks : Holding(t)})
    /\ semValue <= capacity
    /\ (\A t \in Tasks : pc[t] \in {"done", "raised", "cancelled"}) => semValue = capacity

\* Every task has ended, one by an exception and another one cancelled
\* while it held a slot, and every slot is free.
C14_Witness ==
    /\ \A t \in Tasks : pc[t] \in {"done", "raised", "cancelled"}
    /\ \E t \in Tasks : pc[t] = "raised"
    /\ \E u \in Tasks : pc[u] = "cancelled" /\ issued[u] # <<>>
    /\ semValue = capacity

\* C17: a response counts as successful exactly when its status is in
\* 200..299: a body is streamed only from a response with such a status.
C17_OnlySuccessClassStreams ==
    \A t \in Tasks :
        pc[t] = "stream" => response[t].status \in 200..299

\* C19: every task gets its slot and runs to its own end, whatever the
\* number of tasks and the capacity.  Stated on the finished wait: when main
\* is past the gather, every task has ended by itself and, with a mirror to
\* contact, had issued its first GET inside the block.
C19_EveryTaskRunsToItsEnd ==
    main_pc # "gather" =>
        \A t \in Tasks :
            /\ pc[t] \in {"done", "raised"}
            /\ mirrors # <<>> => issued[t] # <<>>

\* The semaphore alone never stops the batch: while a task queues for a
\* slot, a slot is free or another task holds one.
NoLimiterDeadlock ==
    (main_pc = "gather" /\ \E t \in Tasks : pc[t] \in {"start", "waiting"}) =>
        (semValue > 0 \/ \E u \in Tasks : Holding(u))

\* Under FairSpec main's wait at the gather comes to an end.
WaitEventuallyEnds == <>(main_pc # "gather")

C12_BytesReportedWrittenAndOnDisk ==
    \A t \in Tasks :
        /\ pc[t] = "stream" \/ retcode[t] = 0 =>
              /\ destChunks[t] = arrived[t]
              /\ pb[t] = SumSeq(destChunks[t])
              /\ destSize[t] = SumSeq(destChunks[t])
        /\ ~destOpened[t] => destSize[t] = destBefore[t]

\* A download over a file that existed returned success after a body that
\* arrived in two chunks of different lengths, leaving a file of another
\* size than before.
C12_Witness ==
    \E t \in Tasks :
        /\ retcode[t] = 0
        /\ destBefore[t] > 0
        /\ Len(arrived[t]) = 2
        /\ arrived[t][1] # arrived[t][2]
        /\ destSize[t] # destBefore[t]

\* The string C18 compares with: both placeholders of the template give way
\* in one pass, so that what was put in is not looked at again, and then
\* the separators at the end, and only those, are taken off.
RECURSIVE Substituted(_, _, _)
Substituted(s, r, a) ==
    IF s = <<>> THEN <<>>
    ELSE IF StartsWith(s, RepoVar)
         THEN r \o Substituted(SubSeq(s, Len(RepoVar) + 1, Len(s)), r, a)
    ELSE IF StartsWith(s, ArchVar)
         THEN a \o Substituted(SubSeq(s, Len(ArchVar) + 1, Len(s)), r, a)
    ELSE <<Head(s)>> \o Substituted(Tail(s), r, a)

ReferenceUrl(template, r, a) == RStrip(Substituted(template, r, a), "/")

\* C18: the resolved URL is the template with the repository and the
\* architecture put in for their placeholders and the trailing separators
\* taken off: what stands at the front of the template stays, and a
\* repository name is put in as it is.
C18_ResolveIsSubstituteThenStripTrailing ==
    rpc = "resolved" => actual_url = ReferenceUrl(url, repo, X86_64)


====
